---- MODULE Spec2Model ----
(***************************************************************************)
(* Model of Python_Learning_Path/Pipenv_test/module_tree.py: the depth     *)
(* bounded walk of a module graph that prints a box-drawing tree.          *)
(*                                                                         *)
(* A Python str is modelled as the sequence of its Unicode code points, so *)
(* that str.lower(), the comparison of sort keys, slicing and len() are    *)
(* computed as Python computes them.                                       *)
(***************************************************************************)
EXTENDS Integers, Sequences, FiniteSets, TLC

VARIABLES
    root,            \* the module imported by main (args.module)
    maxDepth,        \* args.depth
    includePrivate,  \* args.all
    showDoc,         \* args.doc
    subs,            \* what pkgutil.iter_modules finds: module -> set of modules
    longLen,         \* length of the string bound to the constant LONG of lib
    pc,              \* position of main: "start", "walking", "done"
    visited,         \* the set `visited` of module_tree
    stack,           \* the call stack of walk_module, innermost frame first
    out,             \* standard output: the printed lines, with their provenance
    expansions,      \* per module, how many times its item list was built in this walk
    imported,        \* sys.modules: the modules whose import succeeded
    failed,          \* the modules whose import raises
    log,             \* the walks that passed the visited check: module, depth, submodules scanned
    calls,           \* how many times module_tree was called
    mark             \* the number of lines printed before the latest call of module_tree

vars == <<root, maxDepth, includePrivate, showDoc, subs, longLen,
          pc, visited, stack, out, expansions, imported, failed, log, calls, mark>>

-----------------------------------------------------------------------------
(* Bounds of the model.                                                    *)

\* largest value of --depth that is tried
MaxDepthBound == 3

\* longest string bound to the constant LONG (its repr has two more characters)
MaxStrLen == 61

\* largest number of modules whose import raises in one run
MaxFailures == 1

-----------------------------------------------------------------------------
(* Strings.                                                                *)

TREE_BRANCH == <<9500, 9472, 9472, 32>>   \* "├── "
TREE_LAST   == <<9492, 9472, 9472, 32>>   \* "└── "
TREE_PIPE   == <<9474, 32, 32, 32>>       \* "│   "
TREE_SPACE  == <<32, 32, 32, 32>>         \* "    "

\* "(already visited)"
ALREADY_VISITED ==
    <<40, 97, 108, 114, 101, 97, 100, 121, 32, 118, 105, 115, 105, 116, 101, 100, 41>>

UNDERSCORE == <<95>>       \* "_"
EQUALS     == <<32, 61, 32>>   \* " = "
DOC_DASH   == <<32, 8212, 32>> \* " — "
ELLIPSIS   == <<46, 46, 46>>   \* "..."

\* str.startswith
StartsWith(s, p) ==
    /\ Len(s) >= Len(p)
    /\ SubSeq(s, 1, Len(p)) = p

\* str.lower on one code point (ASCII letters are all the model's names use)
LowerChar(c) == IF c >= 65 /\ c <= 90 THEN c + 32 ELSE c

\* str.lower
Lower(s) == [i \in 1..Len(s) |-> LowerChar(s[i])]

\* a < b for two str, as Python compares them: code point by code point
StrLess(a, b) ==
    LET n == IF Len(a) < Len(b) THEN Len(a) ELSE Len(b)
        diff == {i \in 1..n : a[i] # b[i]}
    IN  IF diff = {}
        THEN Len(a) < Len(b)
        ELSE LET k == CHOOSE i \in diff : \A j \in diff : i <= j
             IN  a[k] < b[k]

\* s[:n]
Slice(s, n) == IF Len(s) <= n THEN s ELSE SubSeq(s, 1, n)

\* repr of a non-negative int: its decimal digits
RECURSIVE Digits(_)
Digits(n) == IF n < 10 THEN <<48 + n>> ELSE Digits(n \div 10) \o <<48 + (n % 10)>>

\* a str of n letters x
Xs(n) == [i \in 1..n |-> 120]

\* repr of a value: an int prints its digits, a str is put between quotes
Repr(val) ==
    IF val.type = "int" THEN Digits(val.int) ELSE <<39>> \o val.str \o <<39>>

IntVal(n) == [type |-> "int", int |-> n, str |-> <<>>]
StrVal(s) == [type |-> "str", int |-> 0, str |-> s]

\* str.strip (32 is the blank, 10 the newline)
RECURSIVE Strip(_)
Strip(s) ==
    IF s = <<>> THEN s
    ELSE IF Head(s) \in {32, 10} THEN Strip(Tail(s))
    ELSE IF s[Len(s)] \in {32, 10} THEN Strip(SubSeq(s, 1, Len(s) - 1))
    ELSE s

\* str.splitlines()[0] of a non-empty str
FirstLine(s) ==
    LET nl == {i \in 1..Len(s) : s[i] = 10}
    IN  IF nl = {} THEN s
        ELSE SubSeq(s, 1, (CHOOSE i \in nl : \A j \in nl : i <= j) - 1)

-----------------------------------------------------------------------------
(* The importable modules and what reflection reports about them.  The     *)
(* walk reads them through inspect and pkgutil only; the module graph and  *)
(* the long constant vary from run to run, the rest is fixed.  pkg and sub *)
(* are the modules of the specification's scenario; Lib has the classes    *)
(* Foo and _Bar and nothing public after them; _util has private names     *)
(* only.                                                                   *)

Modules == {"pkg", "sub", "lib", "util"}

\* the name pkgutil reports for a module (info.name); for the root, args.module
ModName(m) ==
    CASE m = "pkg"  -> <<112, 107, 103>>            \* "pkg"
      [] m = "sub"  -> <<115, 117, 98>>             \* "sub"
      [] m = "lib"  -> <<76, 105, 98>>              \* "Lib"
      [] m = "util" -> <<95, 117, 116, 105, 108>>   \* "_util"

NAME_X    == <<88>>                                 \* "X"
NAME_F    == <<102>>                                \* "f"
NAME_H    == <<95, 104>>                            \* "_h"
NAME_FOO  == <<70, 111, 111>>                       \* "Foo"
NAME_BAR  == <<95, 66, 97, 114>>                    \* "_Bar"
NAME_ZED  == <<95, 90, 101, 100>>                   \* "_Zed"
NAME_BETA == <<95, 98, 101, 116, 97>>               \* "_beta"
NAME_LONG == <<95, 76, 79, 78, 71>>                 \* "_LONG"
NAME_X2   == <<95, 88>>                             \* "_X"
NAME_DUNDER == <<95, 95, 110, 97, 109, 101, 95, 95>>  \* "__name__"
NAME_RUN  == <<82, 117, 110>>                       \* "Run"
NAME_ADD  == <<97, 100, 100>>                       \* "add"
NAME_HID  == <<95, 104, 105, 100>>                  \* "_hid"
NAME_BASE == <<98, 97, 115, 101>>                   \* "base"
NAME_ATTR == <<97, 116, 116, 114>>                  \* "attr"
NAME_GO   == <<103, 111>>                           \* "go"

\* one attribute of a module as inspect sees it: kind is what inspect.isclass,
\* isfunction, ismodule and isbuiltin tell, owner is obj.__module__
Attr(name, kind, owner, obj, val) ==
    [name |-> name, kind |-> kind, owner |-> owner, obj |-> obj, val |-> val]

NoVal == IntVal(0)

\* dir(module): the attributes of each module
ModuleAttrs(m) ==
    CASE m = "pkg" ->
            { Attr(NAME_X, "value", "", "None", IntVal(42)),
              Attr(NAME_DUNDER, "value", "", "None", StrVal(ModName("pkg"))) }
      [] m = "sub" ->
            { Attr(NAME_F, "function", "sub", "sub.f", NoVal),
              Attr(NAME_DUNDER, "value", "", "None", StrVal(ModName("sub"))) }
      [] m = "lib" ->
            { Attr(NAME_FOO, "class", "lib", "lib.Foo", NoVal),
              Attr(NAME_BAR, "class", "lib", "lib._Bar", NoVal),
              Attr(NAME_ZED, "function", "lib", "lib._Zed", NoVal),
              Attr(NAME_BETA, "function", "lib", "lib._beta", NoVal),
              Attr(NAME_F, "function", "sub", "sub.f", NoVal),       \* from sub import f
              Attr(ModName("sub"), "module", "", "sub", NoVal),      \* import sub
              Attr(NAME_X2, "value", "", "None", IntVal(42)),
              Attr(NAME_LONG, "value", "", "None", StrVal(Xs(longLen))),
              Attr(NAME_DUNDER, "value", "", "None", StrVal(ModName("lib"))) }
      [] m = "util" ->
            { Attr(NAME_H, "function", "util", "util._h", NoVal),
              Attr(NAME_DUNDER, "value", "", "None", StrVal(ModName("util"))) }

\* one attribute of a class: callable is inspect.isfunction or ismethoddescriptor,
\* own is `name in cls.__dict__`
ClassAttr(name, callable, own, obj) ==
    [name |-> name, callable |-> callable, own |-> own, obj |-> obj]

\* dir(cls): the attributes of each class
ClassAttrs(cls) ==
    CASE cls = "lib.Foo" ->
            { ClassAttr(NAME_RUN, TRUE, TRUE, "lib.Foo.Run"),
              ClassAttr(NAME_ADD, TRUE, TRUE, "lib.Foo.add"),
              ClassAttr(NAME_HID, TRUE, TRUE, "lib.Foo._hid"),
              ClassAttr(NAME_BASE, TRUE, FALSE, "object.base"),
              ClassAttr(NAME_ATTR, FALSE, TRUE, "None") }
      [] cls = "lib._Bar" ->
            { ClassAttr(NAME_GO, TRUE, TRUE, "lib._Bar.go") }
      [] OTHER -> {}

\* inspect.getdoc(obj) or "": the docstring, empty when there is none
DocOf(obj) ==
    CASE obj = "lib.Foo"     -> <<32, 65, 32, 102, 111, 111, 10, 120, 32>>  \* " A foo\nx "
      [] obj = "lib._Zed"    -> <<90>>                                       \* "Z"
      [] obj = "lib.Foo.Run" -> <<114, 10, 10>>                              \* "r\n\n"
      [] OTHER               -> <<>>

-----------------------------------------------------------------------------
(* Sorting and filtering.                                                  *)

\* _is_private
_is_private(name) == StartsWith(name, UNDERSCORE)

\* a sort that compares the names as they are written
SortKeyCaseSensitive(name) == name

\* the key of every list.sort of the program: key=lambda x: x[0].lower()
SortKey(name) == Lower(name)

\* inspect.getmembers and pkgutil.iter_modules report the entries of a
\* namespace in increasing order of name (code point order)
RECURSIVE ByName(_)
ByName(S) ==
    IF S = {} THEN <<>>
    ELSE LET first == CHOOSE a \in S : \A b \in S : a = b \/ StrLess(a.name, b.name)
         IN  <<first>> \o ByName(S \ {first})

\* one step of list.sort: x goes after every element whose key is not greater
\* (the sort is stable)
RECURSIVE InsertByKey(_, _)
InsertByKey(sorted, x) ==
    IF sorted = <<>> THEN <<x>>
    ELSE IF StrLess(SortKey(x.name), SortKey(Head(sorted).name))
         THEN <<x>> \o sorted
         ELSE <<Head(sorted)>> \o InsertByKey(Tail(sorted), x)

\* list.sort(key=lambda x: x[0].lower())
RECURSIVE SortByKey(_)
SortByKey(seq) ==
    IF seq = <<>> THEN <<>>
    ELSE InsertByKey(SortByKey(SubSeq(seq, 1, Len(seq) - 1)), seq[Len(seq)])

\* the filter applied whatever the option says
ListedIgnoringOption(name) == ~_is_private(name)

\* `if not include_private and _is_private(name): continue`
Listed(name) == includePrivate \/ ~_is_private(name)

\* _yield_members_sorted: the three sorted lists of a module's attributes
OwnedClasses(mod) ==
    LET IsOwnClass(a) == a.kind = "class" /\ a.owner = mod
    IN  SortByKey(SelectSeq(ByName(ModuleAttrs(mod)), IsOwnClass))

OwnedFunctions(mod) ==
    LET IsOwnFunction(a) ==
            /\ ~(a.kind = "class" /\ a.owner = mod)
            /\ a.kind = "function" /\ a.owner = mod
    IN  SortByKey(SelectSeq(ByName(ModuleAttrs(mod)), IsOwnFunction))

Others(mod) ==
    LET IsOther(a) == a.kind \notin {"class", "function", "module", "builtin"}
    IN  SortByKey(SelectSeq(ByName(ModuleAttrs(mod)), IsOther))

\* the entries of seq before the first one whose import raises
RECURSIVE UpToFailure(_)
UpToFailure(seq) ==
    IF seq = <<>> \/ Head(seq).obj \in failed THEN <<>>
    ELSE <<Head(seq)>> \o UpToFailure(Tail(seq))

\* an iteration that an import error ends instead of skipping the module
IterSubmodulesStopAtFailure(mod) ==
    UpToFailure(ByName({[name |-> ModName(m), obj |-> m] : m \in subs[mod]}))

\* _iter_submodules: the submodules pkgutil finds, in its order, each
\* imported; one whose import raises is skipped
IterSubmodules(mod) ==
    LET Imports(a) == a.obj \notin failed
    IN  SelectSeq(ByName({[name |-> ModName(m), obj |-> m] : m \in subs[mod]}), Imports)

\* the cut made at 60 characters, the room of the marker forgotten
PreviewCutAtSixty(val) ==
    LET preview == Repr(val)
    IN  IF Len(preview) > 60 THEN Slice(preview, 60) \o ELLIPSIS ELSE preview

\* the preview of a constant: repr, cut to 57 characters and "..." when longer than 60
Preview(val) ==
    LET preview == Repr(val)
    IN  IF Len(preview) > 60 THEN Slice(preview, 57) \o ELLIPSIS ELSE preview

\* doc1
doc1(obj) ==
    IF ~showDoc THEN <<>>
    ELSE LET d == DocOf(obj)
             first == IF d # <<>> THEN FirstLine(Strip(d)) ELSE <<>>
         IN  IF first # <<>> THEN DOC_DASH \o first ELSE <<>>

\* an entry of items: (kind, name, obj); sym keeps the bare name of the symbol
Item(kind, name, obj, sym) == [kind |-> kind, name |-> name, obj |-> obj, sym |-> sym]

\* items of the listing of mod when walked at depth: the four buckets, each
\* sorted and filtered, one after the other
\* the submodules listed at every depth up to maxDepth, maxDepth included
SubmoduleItemsInclusive(mod, depth) ==
    IF depth <= maxDepth
    THEN LET IsListed(a) == Listed(a.name)
             kept == SelectSeq(SortByKey(IterSubmodules(mod)), IsListed)
         IN  [k \in 1..Len(kept) |-> Item("submodule", kept[k].name, kept[k].obj, kept[k].name)]
    ELSE <<>>

SubmoduleItems(mod, depth) ==
    IF depth < maxDepth
    THEN LET IsListed(a) == Listed(a.name)
             kept == SelectSeq(SortByKey(IterSubmodules(mod)), IsListed)
         IN  [k \in 1..Len(kept) |-> Item("submodule", kept[k].name, kept[k].obj, kept[k].name)]
    ELSE <<>>

ClassItems(mod) ==
    LET IsListed(a) == Listed(a.name)
        kept == SelectSeq(OwnedClasses(mod), IsListed)
    IN  [k \in 1..Len(kept) |-> Item("class", kept[k].name, kept[k].obj, kept[k].name)]

FunctionItems(mod) ==
    LET IsListed(a) == Listed(a.name)
        kept == SelectSeq(OwnedFunctions(mod), IsListed)
    IN  [k \in 1..Len(kept) |-> Item("function", kept[k].name, kept[k].obj, kept[k].name)]

ConstItems(mod) ==
    LET IsListed(a) == Listed(a.name)
        kept == SelectSeq(Others(mod), IsListed)
    IN  [k \in 1..Len(kept) |->
            Item("const", kept[k].name \o EQUALS \o Preview(kept[k].val), "None", kept[k].name)]

\* the buckets put together with the functions before the classes
ItemsFunctionsFirst(mod, depth) ==
    SubmoduleItems(mod, depth) \o FunctionItems(mod) \o ClassItems(mod) \o ConstItems(mod)

Items(mod, depth) ==
    SubmoduleItems(mod, depth) \o ClassItems(mod) \o FunctionItems(mod) \o ConstItems(mod)

\* the members left in the order of inspect.getmembers, by name with the
\* case kept
OwnMembersUnsorted(cls) ==
    LET IsOwn(a) == Listed(a.name) /\ a.callable /\ a.own
    IN  SelectSeq(ByName(ClassAttrs(cls)), IsOwn)

\* the own, callable, listed attributes of a class, sorted
OwnMembers(cls) ==
    LET IsOwn(a) == Listed(a.name) /\ a.callable /\ a.own
    IN  SortByKey(SelectSeq(ByName(ClassAttrs(cls)), IsOwn))

\* the test for the last entry missing it by one: no entry gets the corner
ConnectorOffByOne(i, n) == IF i = n + 1 THEN TREE_LAST ELSE TREE_BRANCH

\* the connector of entry i of n: the corner for the last one, the tee otherwise
Connector(i, n) == IF i = n THEN TREE_LAST ELSE TREE_BRANCH

\* the two continuation segments taken for each other
ContinuationSwapped(i, n) == IF i # n THEN TREE_SPACE ELSE TREE_PIPE

\* the segment put before what is printed beneath entry i of n
Continuation(i, n) == IF i # n THEN TREE_PIPE ELSE TREE_SPACE

-----------------------------------------------------------------------------
(* The program.                                                            *)

\* the submodule links a run may find on disk
CandidateLinks ==
    { <<"pkg", "sub">>, <<"pkg", "lib">>, <<"lib", "sub">>,
      <<"sub", "util">>, <<"sub", "pkg">>, <<"util", "lib">> }

Graphs ==
    { [m \in Modules |-> {n \in Modules : <<m, n>> \in links}] :
        links \in SUBSET CandidateLinks }

\* the modules a run may be started on
Roots == {"pkg", "lib", "util"}

\* the lengths the string LONG of lib may have: its repr is two characters longer
LongLens == {58, 59, MaxStrLen}

\* one printed line: text is what print wrote; the other fields record where
\* the line came from (the module or class whose listing it belongs to, the
\* kind, object and name of the entry, its position in the listing and the
\* listing's length)
Line(text, kind, owner, obj, sym, idx, cnt) ==
    [text |-> text, kind |-> kind, owner |-> owner, obj |-> obj, sym |-> sym,
     idx |-> idx, cnt |-> cnt]

\* a call of walk_module(mod, prefix, depth); items and i are its locals
Frame(mod, prefix, depth) ==
    [mod |-> mod, prefix |-> prefix, depth |-> depth, items |-> <<>>, i |-> 0,
     at |-> "entry"]

Init ==
    /\ root \in Roots
    /\ maxDepth \in 0..MaxDepthBound
    /\ includePrivate \in BOOLEAN
    /\ showDoc \in BOOLEAN
    /\ subs \in Graphs
    /\ longLen = 0
    /\ pc = "start"
    /\ visited = {}
    /\ stack = <<>>
    /\ out = <<>>
    /\ expansions = [m \in Modules |-> 0]
    /\ imported = {}
    /\ failed = {}
    /\ log = {}
    /\ calls = 0
    /\ mark = 0

\* importing lib for the first time runs its body, which binds LONG
ImportLib(loaded) ==
    IF "lib" \in loaded /\ longLen = 0
    THEN \E n \in LongLens : longLen' = n
    ELSE UNCHANGED longLen

\* importlib.import_module on each module of S: a module of sys.modules is
\* returned as it is, one that raised raises again, any other either loads
\* or raises
Import(S) ==
    \E F \in SUBSET (S \ (imported \cup failed)) :
        /\ Cardinality(failed \cup F) <= MaxFailures
        /\ failed' = failed \cup F
        /\ imported' = imported \cup (S \ (failed \cup F))
        /\ ImportLib(S \ (failed \cup F))

\* the exit status of the interpreter: 1 after the uncaught exception of a
\* failed import of the root, 0 after main has returned
ExitStatus == IF pc = "failed" THEN 1 ELSE 0

\* the root's name printed before the import is attempted
PrintedBeforeImport(ok) ==
    <<Line(ModName(root), "root", root, root, ModName(root), 0, 0)>>

\* what main prints: the root's name, once the import has succeeded
PrintedByMain(ok) ==
    IF ok THEN <<Line(ModName(root), "root", root, root, ModName(root), 0, 0)>> ELSE <<>>

\* a visited set that outlives the call
StaleVisited == visited

\* `visited = set()` at the start of module_tree
FreshVisited == {}

\* the submodules looked for at depth max_depth as well
ScansSubmodulesInclusive(depth) == depth <= maxDepth

\* `if depth < max_depth` before _iter_submodules: the submodules are
\* looked for, and imported, only then
ScansSubmodules(depth) == depth < maxDepth

\* the visited check left out
NeverVisited(mod) == FALSE

\* `id(mod) in visited`
AlreadyVisited(mod) == mod \in visited

\* a walk that forgets to record the module
MarkNothing(mod) == visited

\* visited.add(id(mod))
MarkVisited(mod) == visited \cup {mod}

\* the loop's depth test written with <= in place of <
MayDescendInclusive(depth) == depth <= maxDepth

\* `if depth < max_depth` of the loop: members and submodules are printed
\* beneath an entry only then
MayDescend(depth) == depth < maxDepth

\* main: import the root, print its name, call module_tree, which starts with
\* an empty visited set and calls walk_module(module, "", 0)
Main ==
    /\ pc = "start"
    /\ Import({root})
    /\ out' = out \o PrintedByMain(root \notin failed')
    /\ IF root \in failed'
       THEN /\ pc' = "failed"
            /\ UNCHANGED <<visited, stack, calls, mark>>
       ELSE /\ visited' = FreshVisited
            /\ stack' = <<Frame(root, <<>>, 0)>>
            /\ calls' = 1
            /\ mark' = Len(out')
            /\ pc' = "walking"
    /\ UNCHANGED <<root, maxDepth, includePrivate, showDoc, subs, expansions, log>>

\* module_tree called once more on the same module with the same options
ModuleTreeAgain ==
    /\ pc = "done"
    /\ calls = 1
    /\ visited' = FreshVisited
    /\ stack' = <<Frame(root, <<>>, 0)>>
    /\ calls' = 2
    /\ mark' = Len(out)
    /\ expansions' = [m \in Modules |-> 0]
    /\ log' = {}
    /\ pc' = "walking"
    /\ UNCHANGED <<root, maxDepth, includePrivate, showDoc, subs, longLen, out,
                   imported, failed>>

\* walk_module, lines 52-58 and the imports of _iter_submodules: the visited
\* check, the depth check, the import of each submodule
WalkEntry ==
    /\ pc = "walking"
    /\ stack # <<>>
    /\ Head(stack).at = "entry"
    /\ UNCHANGED <<root, maxDepth, includePrivate, showDoc, subs, calls, mark>>
    /\ \E fr \in {Head(stack)} :
        IF AlreadyVisited(fr.mod)
        THEN /\ out' = Append(out, Line(fr.prefix \o TREE_LAST \o ALREADY_VISITED,
                                        "sentinel", fr.mod, fr.mod, ALREADY_VISITED, 1, 1))
             /\ stack' = Tail(stack)
             /\ UNCHANGED <<visited, expansions, longLen, imported, failed, log>>
        ELSE /\ visited' = MarkVisited(fr.mod)
             /\ IF fr.depth > maxDepth
                THEN /\ stack' = Tail(stack)
                     /\ UNCHANGED <<out, expansions, longLen, imported, failed, log>>
                ELSE /\ Import(IF ScansSubmodules(fr.depth) THEN subs[fr.mod] ELSE {})
                     /\ log' = log \cup {[mod |-> fr.mod, depth |-> fr.depth,
                                           scan |-> ScansSubmodules(fr.depth)]}
                     /\ stack' = <<[fr EXCEPT !.at = "collect"]>> \o Tail(stack)
                     /\ UNCHANGED <<out, expansions>>
    /\ pc' = IF stack' = <<>> THEN "done" ELSE "walking"

\* walk_module, lines 60-86: the item list is built from the submodules the
\* imports gave and from the module's own classes, functions and constants
WalkCollect ==
    /\ pc = "walking"
    /\ stack # <<>>
    /\ Head(stack).at = "collect"
    /\ LET fr == Head(stack) IN
        /\ stack' = <<[fr EXCEPT !.items = Items(fr.mod, fr.depth),
                                  !.i = 1, !.at = "loop"]>>
                    \o Tail(stack)
        /\ expansions' = [expansions EXCEPT ![fr.mod] = @ + 1]
    /\ UNCHANGED <<root, maxDepth, includePrivate, showDoc, subs, longLen, pc,
                   visited, out, imported, failed, log, calls, mark>>

\* the lines of the members of a class, printed beneath entry i of n
MemberLines(fr, cls, i, n) ==
    LET own == OwnMembers(cls)
    IN  [j \in 1..Len(own) |->
            Line(fr.prefix \o Continuation(i, n) \o Connector(j, Len(own))
                    \o own[j].name \o doc1(own[j].obj),
                 "member", cls, own[j].obj, own[j].name, j, Len(own))]

\* one turn of the loop over items: print the entry, then the members of a
\* class or the walk of a submodule when depth < max_depth
WalkItem ==
    /\ pc = "walking"
    /\ stack # <<>>
    /\ Head(stack).at = "loop"
    /\ Head(stack).i <= Len(Head(stack).items)
    /\ LET fr == Head(stack)
           n == Len(fr.items)
           it == fr.items[fr.i]
           line == fr.prefix \o Connector(fr.i, n) \o it.name
                     \o (IF it.kind \in {"class", "function"} THEN doc1(it.obj) ELSE <<>>)
           printed == Append(out, Line(line, it.kind, fr.mod, it.obj, it.sym, fr.i, n))
           next == [fr EXCEPT !.i = @ + 1]
       IN  IF MayDescend(fr.depth) /\ it.kind = "class"
           THEN /\ out' = printed \o MemberLines(fr, it.obj, fr.i, n)
                /\ stack' = <<next>> \o Tail(stack)
           ELSE IF MayDescend(fr.depth) /\ it.kind = "submodule"
           THEN /\ out' = printed
                /\ stack' = <<Frame(it.obj, fr.prefix \o Continuation(fr.i, n), fr.depth + 1),
                              next>> \o Tail(stack)
           ELSE /\ out' = printed
                /\ stack' = <<next>> \o Tail(stack)
    /\ UNCHANGED <<root, maxDepth, includePrivate, showDoc, subs, longLen,
                   pc, visited, expansions, imported, failed, log, calls, mark>>

\* the loop is over: walk_module returns to its caller
WalkReturn ==
    /\ pc = "walking"
    /\ stack # <<>>
    /\ Head(stack).at = "loop"
    /\ Head(stack).i > Len(Head(stack).items)
    /\ stack' = Tail(stack)
    /\ pc' = IF stack' = <<>> THEN "done" ELSE "walking"
    /\ UNCHANGED <<root, maxDepth, includePrivate, showDoc, subs, longLen,
                   visited, out, expansions, imported, failed, log, calls, mark>>

Next == Main \/ WalkEntry \/ WalkCollect \/ WalkItem \/ WalkReturn

\* one run of main
Spec == Init /\ [][Next]_vars

NextTwice == Next \/ ModuleTreeAgain

\* one run of main, then module_tree called a second time
TwiceSpec == Init /\ [][NextTwice]_vars

-----------------------------------------------------------------------------
(* Reading the output back.                                                *)

Done == pc = "done"

Segments == {TREE_BRANCH, TREE_LAST, TREE_PIPE, TREE_SPACE}

\* the ancestry depth of a printed line: the number of four-character
\* segments (continuations, then the connector) its text starts with
RECURSIVE LineDepth(_)
LineDepth(text) ==
    IF Len(text) >= 4 /\ SubSeq(text, 1, 4) \in Segments
    THEN 1 + LineDepth(SubSeq(text, 5, Len(text)))
    ELSE 0

\* the continuation segments of a line, its connector, and what follows them
PrefixOf(text) == SubSeq(text, 1, 4 * (LineDepth(text) - 1))
ConnOf(text)   == SubSeq(text, 4 * LineDepth(text) - 3, 4 * LineDepth(text))
BodyOf(text)   == SubSeq(text, 4 * LineDepth(text) + 1, Len(text))

Texts == [k \in 1..Len(out) |-> out[k].text]

ItemKinds == {"submodule", "class", "function", "const"}

\* the positions of the lines of one kind, and of the lines of one listing
LinesOfKind(kind) == {k \in 1..Len(out) : out[k].kind = kind}
Listing(mod) == {k \in 1..Len(out) : out[k].kind \in ItemKinds /\ out[k].owner = mod}

-----------------------------------------------------------------------------
(* C1.  Depth bound.                                                       *)

\* C1 as stated: no printed line has ancestry depth greater than maxDepth
\* (root name line at depth 0, one level per four-character segment).
C1_DepthAtMostMax ==
    \A k \in 1..Len(out) : LineDepth(out[k].text) <= maxDepth

\* C1 amended: no printed line has ancestry depth greater than maxDepth + 1.
\* The entries of a module walked at depth d are printed at depth d + 1 for
\* every d <= maxDepth; class members (depth d + 2) and the lines of a walked
\* submodule, sentinels included, are printed only when d < maxDepth.
C1_DepthAtMostMaxPlusOne ==
    /\ \A k \in 1..Len(out) : LineDepth(out[k].text) <= maxDepth + 1
    /\ \A k \in LinesOfKind("member") \cup LinesOfKind("sentinel") :
            LineDepth(out[k].text) >= 2

\* a walk with maxDepth >= 1 that printed a class member, a sentinel and a
\* constant, each at depth maxDepth + 1
C1_Witness ==
    /\ Done
    /\ maxDepth >= 1
    /\ \E k \in LinesOfKind("member") : LineDepth(out[k].text) = maxDepth + 1
    /\ \E k \in LinesOfKind("sentinel") : LineDepth(out[k].text) = maxDepth + 1
    /\ \E k \in LinesOfKind("const") : LineDepth(out[k].text) = maxDepth + 1

-----------------------------------------------------------------------------
(* C2.  maxDepth = 0.                                                      *)

\* C2 as stated: with maxDepth = 0 the complete output is the root's name.
C2_OnlyRootLine ==
    (Done /\ maxDepth = 0) => Texts = <<ModName(root)>>

\* the attributes of a module that its listing shows apart from submodules:
\* the classes and functions it owns and its plain values, private names
\* only on request
ShownAttrs(mod) ==
    {a \in ModuleAttrs(mod) :
        /\ \/ a.kind \in {"class", "function"} /\ a.owner = mod
           \/ a.kind = "value"
        /\ includePrivate \/ a.name[1] # 95}

\* C2 amended: with maxDepth = 0 the output is the root's name followed by
\* one line at depth 1 for each listed class, function and constant of the
\* root, and nothing else: no submodule, no class member, no sentinel.  It
\* is the root line alone only when the root has no such entry.
C2_RootAndItsOwnEntries ==
    (Done /\ maxDepth = 0) =>
        /\ out[1].text = ModName(root)
        /\ Len(out) = 1 + Cardinality(ShownAttrs(root))
        /\ \A k \in 2..Len(out) :
              /\ out[k].kind \in {"class", "function", "const"}
              /\ out[k].owner = root
              /\ LineDepth(out[k].text) = 1
              /\ \E a \in ShownAttrs(root) : a.name = out[k].sym
        /\ visited = {root}

\* a finished walk with maxDepth = 0 of a root that has submodules, classes
\* with members, functions and constants
C2_Witness ==
    /\ Done
    /\ maxDepth = 0
    /\ root = "lib"
    /\ subs[root] # {}
    /\ Len(out) > 1

-----------------------------------------------------------------------------
(* C3.  A cycle A -> B -> A in the submodule graph.                        *)

\* the root pkg has the one submodule sub, whose one submodule is pkg again
CycleGraph ==
    /\ root = "pkg"
    /\ subs["pkg"] = {"sub"}
    /\ subs["sub"] = {"pkg"}
    /\ failed = {}

\* some step of the program can be taken: the guards of Main, WalkEntry,
\* WalkItem and WalkReturn, whose bodies are defined whenever they hold
Runnable ==
    \/ pc = "start"
    \/ /\ pc = "walking"
       /\ stack # <<>>
       /\ Head(stack).at \in {"entry", "collect", "loop"}

Sentinels(mod) == {k \in LinesOfKind("sentinel") : out[k].obj = mod}

\* C3 as stated: on the cycle the finished walk has printed exactly one
\* "(already visited)" line, for the repeated node, which was expanded once.
C3_ExactlyOneSentinel ==
    (Done /\ CycleGraph) =>
        /\ Cardinality(LinesOfKind("sentinel")) = 1
        /\ Cardinality(Sentinels("pkg")) = 1
        /\ expansions["pkg"] = 1

\* C3 amended: on the cycle the walk terminates (it is never stuck before
\* its end, and the recursion is at most three calls deep: root, sub, root)
\* and the root is never expanded a second time; it prints exactly one
\* sentinel, for the root, when maxDepth >= 2, and no sentinel when
\* maxDepth < 2, because the walk then stops before it reaches the root
\* again.
C3_CycleOneSentinelFromDepthTwo ==
    CycleGraph =>
        /\ Done \/ Runnable
        /\ Len(stack) <= 3
        /\ expansions["pkg"] <= 1 /\ expansions["sub"] <= 1
        /\ Done =>
              /\ expansions["pkg"] = 1
              /\ LinesOfKind("sentinel") = Sentinels("pkg")
              /\ Cardinality(Sentinels("pkg")) = IF maxDepth >= 2 THEN 1 ELSE 0

\* the walk of the cycle has ended and the sentinel of the root is the last
\* line printed
C3_Witness ==
    /\ Done
    /\ CycleGraph
    /\ maxDepth >= 2
    /\ out[Len(out) - 2].kind = "sentinel"
    /\ out[Len(out) - 2].obj = "pkg"
    /\ expansions["sub"] = 1

-----------------------------------------------------------------------------
(* C4.  Lines and entities.                                                *)

\* C4 as stated: no entity is printed on more than one line (a class member
\* counts as an entity; the sentinel lines name no entity of their own).
C4_NoEntityTwice ==
    \A j, k \in 1..Len(out) :
        ( /\ j # k
          /\ out[j].kind \in {"root", "submodule", "class", "function", "member"}
          /\ out[k].kind \in {"root", "submodule", "class", "function", "member"} )
        => out[j].obj # out[k].obj

SubmoduleLines(mod) == {k \in LinesOfKind("submodule") : out[k].obj = mod}

\* C4 amended: every line other than the root line and the sentinels is one
\* entry of one listing, and no listing is printed twice (no module is
\* expanded twice, no position of a listing or of a member list is printed
\* twice).  An entity can still be printed on several lines: a submodule
\* gets a name line under every parent that lists it (diamond, cycle), each
\* of them except the one that starts its walk followed by a sentinel, and
\* a constant exposed by two modules is printed in both listings.
C4_NoListingTwice ==
    /\ \A m \in Modules : expansions[m] <= 1
    /\ \A j, k \in 1..Len(out) :
          ( /\ j # k
            /\ out[j].kind \notin {"root", "sentinel"}
            /\ out[k].kind \notin {"root", "sentinel"}
            /\ out[j].owner = out[k].owner )
          => out[j].idx # out[k].idx
    /\ \A k \in LinesOfKind("sentinel") :
          k > 1 /\ out[k - 1].kind = "submodule" /\ out[k - 1].obj = out[k].obj
    /\ Done =>
          \A m \in Modules :
              Cardinality(SubmoduleLines(m)) =
                  Cardinality(Sentinels(m))
                    + (IF m # root /\ expansions[m] = 1 THEN 1 ELSE 0)

\* a finished walk of a diamond (sub is a submodule of pkg and of lib) in
\* which sub has two name lines and one sentinel, and the constant X is
\* printed for pkg and, under another name, for lib
C4_Witness ==
    /\ Done
    /\ root = "pkg"
    /\ Cardinality(SubmoduleLines("sub")) = 2
    /\ Cardinality(Sentinels("sub")) = 1
    /\ \E j \in Listing("pkg"), k \in Listing("lib") :
          out[j].sym = NAME_X /\ out[k].sym = NAME_X2

-----------------------------------------------------------------------------
(* C5.  The scenario of the specification.                                 *)

\* pkg has the one submodule sub and the one public constant X = 42; sub
\* has the one public function f; main runs with --depth 2 and without --all
PkgScenario ==
    /\ root = "pkg"
    /\ subs["pkg"] = {"sub"}
    /\ subs["sub"] = {}
    /\ maxDepth = 2
    /\ ~includePrivate
    /\ failed = {}

\* C5: in the scenario main prints exactly the four lines
\*     pkg / ├── sub / │   └── f / └── X = 42
C5_ScenarioOutput ==
    (Done /\ PkgScenario) =>
        Texts = << <<112, 107, 103>>,
                   <<9500, 9472, 9472, 32, 115, 117, 98>>,
                   <<9474, 32, 32, 32, 9492, 9472, 9472, 32, 102>>,
                   <<9492, 9472, 9472, 32, 88, 32, 61, 32, 52, 50>> >>

\* the run of the scenario has ended, sub was walked and f printed
C5_Witness ==
    /\ Done
    /\ PkgScenario
    /\ expansions["sub"] = 1
    /\ \E k \in Listing("sub") : out[k].obj = "sub.f"

-----------------------------------------------------------------------------
(* C6.  Connectors and continuations.                                      *)

\* the line beneath which line k is printed: the class of a member, the name
\* line just before a sentinel, the first name line of the module whose
\* listing line k belongs to (0: the line belongs to the listing of the root)
ParentLine(k) ==
    IF out[k].kind = "member"
    THEN CHOOSE p \in LinesOfKind("class") : out[p].obj = out[k].owner
    ELSE IF out[k].kind = "sentinel" THEN k - 1
    ELSE IF out[k].owner = root THEN 0
    ELSE CHOOSE p \in LinesOfKind("submodule") :
            /\ out[p].obj = out[k].owner
            /\ \A q \in LinesOfKind("submodule") : out[q].obj = out[k].owner => p <= q

\* C6: in every listing and in every member list of N entries the last
\* entry, and only it, has the corner connector, the others the tee; the
\* lines beneath an entry that is not the last of its listing extend its
\* prefix by the vertical-bar segment, those beneath the last by the blank
\* segment.
C6_ConnectorsAndContinuations ==
    /\ \A k \in 2..Len(out) :
          /\ out[k].idx >= 1 /\ out[k].idx <= out[k].cnt
          /\ ConnOf(out[k].text) = IF out[k].idx = out[k].cnt
                                   THEN <<9492, 9472, 9472, 32>>
                                   ELSE <<9500, 9472, 9472, 32>>
          /\ StartsWith(BodyOf(out[k].text), out[k].sym)
          /\ LET p == ParentLine(k) IN
                IF p = 0
                THEN PrefixOf(out[k].text) = <<>>
                ELSE /\ p < k
                     /\ PrefixOf(out[k].text) =
                            PrefixOf(out[p].text) \o
                            (IF out[p].idx # out[p].cnt
                             THEN <<9474, 32, 32, 32>> ELSE <<32, 32, 32, 32>>)
          \* the entries of a listing are printed in order, none skipped
          /\ out[k].idx > 1 =>
                \E j \in 1..(k - 1) :
                    /\ out[j].kind \notin {"root", "sentinel"}
                    /\ out[j].owner = out[k].owner
                    /\ out[j].idx = out[k].idx - 1
                    /\ out[j].cnt = out[k].cnt
                    /\ PrefixOf(out[j].text) = PrefixOf(out[k].text)
    /\ Done =>
          \A k \in 2..Len(out) :
              \E j \in k..Len(out) :
                  /\ out[j].owner = out[k].owner
                  /\ (out[j].kind = "member") = (out[k].kind = "member")
                  /\ out[j].idx = out[k].cnt
                  /\ ConnOf(out[j].text) = <<9492, 9472, 9472, 32>>

\* a finished walk in which lines were printed beneath a last entry (a
\* submodule, and a class with two members) and beneath a submodule that is
\* not the last entry of its listing
C6_Witness ==
    /\ Done
    /\ \E k \in LinesOfKind("member") :
          out[ParentLine(k)].idx = out[ParentLine(k)].cnt /\ out[k].cnt >= 2
    /\ \E k \in 2..Len(out) :
          /\ out[k].kind \in ItemKinds
          /\ ParentLine(k) # 0
          /\ out[ParentLine(k)].idx = out[ParentLine(k)].cnt
    /\ \E k \in 2..Len(out) :
          /\ out[k].kind \in ItemKinds
          /\ ParentLine(k) # 0
          /\ out[ParentLine(k)].idx # out[ParentLine(k)].cnt

-----------------------------------------------------------------------------
(* C7.  Order of a listing.                                                *)

\* the place of a bucket in a listing
BucketRank(kind) ==
    CASE kind = "submodule" -> 1
      [] kind = "class"     -> 2
      [] kind = "function"  -> 3
      [] kind = "const"     -> 4

\* C7: the lines of one listing come in the bucket order Submodule, Class,
\* Function, Constant, within a bucket in non-decreasing order of the
\* lower-cased names; so the entry with the corner connector is of the last
\* bucket that the listing has an entry of.
C7_BucketsThenNames ==
    /\ \A m \in Modules : \A j, k \in Listing(m) :
          j < k =>
              /\ out[j].idx < out[k].idx
              /\ BucketRank(out[j].kind) <= BucketRank(out[k].kind)
              /\ out[j].kind = out[k].kind =>
                    ~StrLess(Lower(out[k].sym), Lower(out[j].sym))
    /\ \A m \in Modules : \A k \in Listing(m) :
          ConnOf(out[k].text) = TREE_LAST =>
              \A j \in Listing(m) : BucketRank(out[j].kind) <= BucketRank(out[k].kind)

\* a finished walk that printed a listing with entries of the four buckets,
\* among them two functions whose order depends on the lower-casing
C7_Witness ==
    /\ Done
    /\ \E m \in Modules :
          /\ \A kind \in ItemKinds : \E k \in Listing(m) : out[k].kind = kind
          /\ \E j, k \in Listing(m) :
                /\ j < k
                /\ out[j].kind = "function" /\ out[k].kind = "function"
                /\ StrLess(out[k].sym, out[j].sym)

-----------------------------------------------------------------------------
(* C8.  Private names.                                                     *)

\* the name starts with the private marker "_"
PrivateName(name) == name # <<>> /\ name[1] = 95

\* the names a complete listing of mod, walked at depth, shows when nothing
\* is dropped because of its name
AllEntryNames(mod, depth) ==
    {a.name : a \in {b \in ModuleAttrs(mod) :
                        \/ b.kind \in {"class", "function"} /\ b.owner = mod
                        \/ b.kind = "value"}}
      \cup (IF depth < maxDepth THEN {ModName(m) : m \in subs[mod] \ failed} ELSE {})

\* the names a complete member list of cls shows then
AllMemberNames(cls) == {a.name : a \in {b \in ClassAttrs(cls) : b.callable /\ b.own}}

\* C8: without includePrivate no entry or member line names a private
\* symbol, and no module with a private name is walked as a submodule or put
\* in the visited set; with includePrivate no symbol is dropped because of
\* its name.
C8_PrivateFilter ==
    /\ ~includePrivate =>
          /\ \A k \in 2..Len(out) : out[k].kind # "sentinel" => ~PrivateName(out[k].sym)
          /\ \A m \in visited \ {root} : ~PrivateName(ModName(m))
          /\ \A f \in 1..Len(stack) :
                stack[f].depth > 0 => ~PrivateName(ModName(stack[f].mod))
    /\ (includePrivate /\ Done) =>
          /\ \A m \in Modules : \A k \in Listing(m) :
                {out[j].sym : j \in Listing(m)} = AllEntryNames(m, LineDepth(out[k].text) - 1)
          /\ \A k \in LinesOfKind("class") :
                LineDepth(out[k].text) - 1 < maxDepth =>
                    {out[j].sym : j \in {i \in LinesOfKind("member") : out[i].owner = out[k].obj}}
                        = AllMemberNames(out[k].obj)

\* a finished walk without includePrivate in which sub listed its submodule
\* pkg but not its submodule _util, and Lib its class Foo with its members
C8_Witness ==
    /\ Done
    /\ ~includePrivate
    /\ "util" \in subs["sub"]
    /\ \E k \in Listing("sub") : out[k].kind = "submodule" /\ out[k].obj = "pkg"
    /\ \E k \in LinesOfKind("member") : out[k].owner = "lib.Foo"

-----------------------------------------------------------------------------
(* C9.  The classes Foo and _Bar.                                          *)

\* the positions of the lines of the classes of Lib with the given name
ClassLine(name) ==
    {k \in Listing("lib") : out[k].kind = "class" /\ out[k].sym = name}

\* C9 as stated: without includePrivate only Foo is listed; with it both
\* are, Foo before _Bar.
C9_FooBeforeBar ==
    (Done /\ expansions["lib"] = 1) =>
        /\ Cardinality(ClassLine(NAME_FOO)) = 1
        /\ ~includePrivate => ClassLine(NAME_BAR) = {}
        /\ includePrivate =>
              \E j \in ClassLine(NAME_FOO), k \in ClassLine(NAME_BAR) : j < k

\* C9 amended: without includePrivate only Foo is listed; with it both are,
\* _Bar before Foo: the key is the lower-cased name, and "_" (code point 95)
\* is smaller than every lower-case letter.
C9_BarBeforeFoo ==
    /\ ~includePrivate => ClassLine(NAME_BAR) = {}
    /\ \A k \in Listing("lib") : out[k].kind = "class" => out[k].sym \in {NAME_FOO, NAME_BAR}
    /\ (Done /\ expansions["lib"] = 1) =>
          /\ Cardinality(ClassLine(NAME_FOO)) = 1
          /\ includePrivate =>
                /\ Cardinality(ClassLine(NAME_BAR)) = 1
                /\ \E j \in ClassLine(NAME_BAR), k \in ClassLine(NAME_FOO) : j < k

\* a finished walk with includePrivate that listed both classes of Lib
C9_Witness ==
    /\ Done
    /\ includePrivate
    /\ ClassLine(NAME_FOO) # {}
    /\ ClassLine(NAME_BAR) # {}

-----------------------------------------------------------------------------
(* C10.  The preview of a constant.                                        *)

\* repr of the value that the constant of line k is bound to
FullPreview(k) ==
    Repr((CHOOSE a \in ModuleAttrs(out[k].owner) : a.name = out[k].sym).val)

\* the part of the line of a constant after "name = "
PrintedPreview(k) ==
    LET body == BodyOf(out[k].text)
    IN  SubSeq(body, Len(out[k].sym) + 4, Len(body))

\* C10: the preview printed for a constant has at most 60 characters; a
\* full preview of more than 60 characters is printed as its first 57
\* characters followed by "...", 60 characters in all; a full preview of 60
\* characters or fewer is printed unchanged.
C10_PreviewAtMostSixty ==
    \A k \in LinesOfKind("const") :
        LET full == FullPreview(k)
            shown == PrintedPreview(k)
        IN  /\ SubSeq(BodyOf(out[k].text), 1, Len(out[k].sym) + 3) = out[k].sym \o <<32, 61, 32>>
            /\ Len(shown) <= 60
            /\ Len(full) > 60 =>
                  /\ Len(shown) = 60
                  /\ \A i \in 1..57 : shown[i] = full[i]
                  /\ \A i \in 58..60 : shown[i] = 46
            /\ Len(full) <= 60 => shown = full

\* a walk has printed a constant whose full preview has more than 60
\* characters, and one whose full preview is short
C10_Witness ==
    /\ \E k \in LinesOfKind("const") : Len(FullPreview(k)) > 60
    /\ \E k \in LinesOfKind("const") : Len(FullPreview(k)) < 60

-----------------------------------------------------------------------------
(* C11.  The root cannot be imported.                                      *)

\* C11: when the import of the root raises, main ends with a non-zero exit
\*      status and has written nothing to standard output, neither the
\*      root's name nor any line of the tree; no walk was started.
C11_RootImportFailure ==
    (root \in failed) =>
        /\ pc = "failed"
        /\ ExitStatus # 0
        /\ out = <<>>
        /\ stack = <<>>
        /\ calls = 0

\* main has tried to import the root and the import raised
C11_Witness ==
    /\ pc = "failed"
    /\ root \in failed

-----------------------------------------------------------------------------
(* C12.  A submodule cannot be imported.                                   *)

\* the submodules of mod that a listing made below maxDepth has to show:
\* those whose import succeeded and whose name passes the private filter
ResolvedSubmodules(mod) ==
    {m \in subs[mod] \ failed : includePrivate \/ ~PrivateName(ModName(m))}

\* the lines of the listing of mod that name a submodule, and the others
SubmoduleEntries(mod) == {k \in Listing(mod) : out[k].kind = "submodule"}
OwnEntries(mod) == {k \in Listing(mod) : out[k].kind # "submodule"}

-----------------------------------------------------------------------------
(* C13.  module_tree called twice.                                         *)

\* the modules the current call of module_tree has entered: those whose
\* item list it has built and those whose walk is in progress
EnteredThisCall ==
    {m \in Modules : expansions[m] > 0} \cup {stack[f].mod : f \in 1..Len(stack)}

\* the lines printed by the first call (after the root's name, printed by
\* main) and by the second call, once the second call has started
FirstCallTexts == SubSeq(Texts, 2, mark)
SecondCallTexts == SubSeq(Texts, mark + 1, Len(out))

\* C13: a second call of module_tree on the same root with the same options
\*      and the same import results prints what the first call printed: it
\*      starts from an empty visited set, so a module visited only during the
\*      first call is walked again and gets no "(already visited)" line.
C13_SecondCallSameOutput ==
    calls = 2 =>
        /\ visited \subseteq EnteredThisCall
        /\ Len(SecondCallTexts) <= Len(FirstCallTexts)
        /\ SecondCallTexts = SubSeq(FirstCallTexts, 1, Len(SecondCallTexts))
        /\ pc = "done" => SecondCallTexts = FirstCallTexts

\* the second call has finished on a graph with a diamond or a cycle: it
\* printed a sentinel, class members and the listings of two submodules
C13_Witness ==
    /\ calls = 2
    /\ pc = "done"
    /\ \E k \in (mark + 1)..Len(out) : out[k].kind = "sentinel"
    /\ \E k \in (mark + 1)..Len(out) : out[k].kind = "member"
    /\ Cardinality({out[k].owner : k \in (mark + 1)..Len(out)} \cap Modules) >= 3

-----------------------------------------------------------------------------
(* C14.  Termination and the work of a walk.                               *)

RECURSIVE SumOver(_, _)
SumOver(f, S) ==
    IF S = {} THEN 0
    ELSE LET x == CHOOSE y \in S : TRUE IN f[x] + SumOver(f, S \ {x})

\* how many item lists the walk has built
Expansions == SumOver(expansions, Modules)

\* the modules reachable from the root by at most n submodule links
RECURSIVE ReachWithin(_)
ReachWithin(n) ==
    IF n = 0 THEN {root}
    ELSE LET R == ReachWithin(n - 1) IN R \cup UNION {subs[m] : m \in R}

\* the most lines the expansion of mod can print: a name and a sentinel for
\* each submodule, a line for each attribute and for each attribute of a class
LinesOf(mod) ==
    2 * Cardinality(subs[mod]) + Cardinality(ModuleAttrs(mod))
      + SumOver([a \in ModuleAttrs(mod) |->
                    IF a.kind = "class" THEN Cardinality(ClassAttrs(a.obj)) ELSE 0],
                ModuleAttrs(mod))

\* the most lines a run can print: the root's name and the lines of the
\* expansion of each module reachable within maxDepth links
LinesBound == 1 + SumOver([m \in Modules |-> LinesOf(m)], ReachWithin(maxDepth))

\* what the run has done so far; every step of the program adds to it
Work ==
    (IF pc = "start" THEN 0 ELSE 1) + 3 * Len(out) + 3 * Expansions
      + Cardinality(visited) - Len(stack)

\* never stuck before the end, no module expanded twice, and the expansions,
\* the visited set, the output and the recursion bounded by what is
\* reachable from the root within maxDepth links
BoundedWork ==
    /\ Done \/ pc = "failed" \/ Runnable
    /\ \A m \in Modules : expansions[m] <= 1
    /\ Expansions <= Cardinality(ReachWithin(maxDepth))
    /\ {m \in Modules : expansions[m] = 1} \subseteq visited
    /\ visited \subseteq ReachWithin(maxDepth)
    /\ Len(out) <= LinesBound
    /\ Len(stack) <= maxDepth + 2

\* C14: on every module graph, with a diamond or a cycle or neither, and for
\*      every maxDepth the walk terminates: it is never stuck before its end,
\*      every step adds to the work done, and the work is bounded by the
\*      modules reachable from the root within maxDepth links.  Each module
\*      passes the visited check and has its item list built at most once,
\*      so there are no more expansions than such modules; the visited set
\*      only grows.
C14_TerminatesWithBoundedWork ==
    /\ []BoundedWork
    /\ [][/\ visited \subseteq visited'
          /\ Work' > Work]_vars

\* a finished walk with maxDepth >= 2 on a graph with a cycle or a diamond:
\* a sentinel was printed and every one of the three or more reachable
\* modules was expanded exactly once
C14_Witness ==
    /\ Done
    /\ maxDepth >= 2
    /\ LinesOfKind("sentinel") # {}
    /\ Expansions >= 3
    /\ Expansions = Cardinality(ReachWithin(maxDepth))

-----------------------------------------------------------------------------
(* C15.  Submodules are looked for below maxDepth only.                    *)

\* the modules whose import the run has attempted when every walk that
\* scans for submodules is one made at a depth below maxDepth
AttemptedImports ==
    {root} \cup UNION {subs[e.mod] : e \in {w \in log : w.depth < maxDepth}}

\* every walk that scanned for submodules was made below maxDepth, nothing
\* else was imported, and a finished walk has listed for a module walked at
\* maxDepth its classes, functions and constants and no submodule
ScannedBelowMaxDepth ==
    /\ \A e \in log : e.depth <= maxDepth /\ (e.scan <=> e.depth < maxDepth)
    /\ \A f \in 1..Len(stack) : stack[f].depth <= maxDepth
    /\ (imported \cup failed) \subseteq AttemptedImports
    /\ Done =>
          /\ root \in imported
          /\ imported \cup failed = AttemptedImports
          /\ \A e \in log :
                /\ {out[k].sym : k \in OwnEntries(e.mod)}
                      = {a.name : a \in ShownAttrs(e.mod)}
                /\ e.depth = maxDepth => SubmoduleEntries(e.mod) = {}
                /\ \A k \in Listing(e.mod) : LineDepth(out[k].text) = e.depth + 1

\* C15: a walk looks for the submodules of its module, importing each, only
\*      at a depth below maxDepth.  A module walked at depth maxDepth has no
\*      submodule imported, listed or walked from it, and its classes,
\*      functions and constants are listed all the same.
C15_ScanBelowMaxDepthOnly ==
    /\ []ScannedBelowMaxDepth
    /\ [][(imported' # imported \/ failed' # failed) =>
              \/ pc = "start"
              \/ /\ Head(stack).at = "entry"
                 /\ Head(stack).depth < maxDepth]_vars

\* a finished walk in which a module with submodules was walked at depth
\* maxDepth >= 1: one of its submodules was never imported, and its own
\* classes, functions or constants are listed
C15_Witness ==
    /\ Done
    /\ maxDepth >= 1
    /\ \E e \in log :
          /\ e.depth = maxDepth
          /\ subs[e.mod] \ (imported \cup failed) # {}
          /\ OwnEntries(e.mod) # {}
          /\ SubmoduleEntries(e.mod) = {}

-----------------------------------------------------------------------------
(* C16.  The members of a class.                                           *)

\* the positions of the lines of the members of the class printed on line k
MembersOf(k) == {j \in LinesOfKind("member") : out[j].owner = out[k].obj}

\* the names of the own members of the class cls that pass the private filter
ListedMemberNames(cls) ==
    {n \in AllMemberNames(cls) : includePrivate \/ ~PrivateName(n)}

\* a <= b for strings
StrLessEq(a, b) == a = b \/ StrLess(a, b)

\* C16: the own members of a class listed by a walk at depth d are printed
\*      if and only if d < maxDepth; they are then the lines directly after
\*      the class's line, before the next entry of the listing, one level
\*      deeper than the class and in non-decreasing order of their
\*      lower-cased names.  Nothing is printed beneath a member, and the
\*      visited set holds modules only, never a class or a member.
C16_ClassMembers ==
    /\ \A k \in LinesOfKind("class") :
          LET d == LineDepth(out[k].text) - 1
              n == Cardinality(MembersOf(k))
          IN  /\ d <= maxDepth
              /\ d >= maxDepth => n = 0
              /\ d < maxDepth =>
                    /\ {out[j].sym : j \in MembersOf(k)} = ListedMemberNames(out[k].obj)
                    /\ n = Cardinality(ListedMemberNames(out[k].obj))
              /\ MembersOf(k) = (k + 1)..(k + n)
              /\ \A j \in MembersOf(k) :
                    /\ LineDepth(out[j].text) = d + 2
                    /\ StartsWith(out[j].text, PrefixOf(out[k].text))
                    /\ out[j].idx = j - k
                    /\ j > k + 1 => StrLessEq(Lower(out[j - 1].sym), Lower(out[j].sym))
              /\ (k + n < Len(out)) =>
                    LineDepth(out[k + n + 1].text) <= d + 1
    /\ \A j \in LinesOfKind("member") :
          /\ \E k \in LinesOfKind("class") : out[k].obj = out[j].owner
          /\ j < Len(out) => LineDepth(out[j + 1].text) <= LineDepth(out[j].text)
    /\ visited \subseteq Modules
    /\ \A k \in LinesOfKind("class") \cup LinesOfKind("member") :
          out[k].obj \notin visited

\* a finished walk with includePrivate, maxDepth = 1 and the root Lib: the
\* class Foo, listed at depth 0 < maxDepth, is followed by its members _hid,
\* add and Run in that order, and these by the next entry of Lib
C16_Witness ==
    /\ Done
    /\ root = "lib"
    /\ maxDepth = 1
    /\ includePrivate
    /\ \E k \in LinesOfKind("class") :
          /\ out[k].sym = NAME_FOO
          /\ Cardinality(MembersOf(k)) = 3
          /\ out[k + 1].sym = NAME_HID
          /\ out[k + 2].sym = NAME_ADD
          /\ out[k + 3].sym = NAME_RUN
          /\ k + 3 < Len(out)
          /\ out[k + 4].kind = "function"

-----------------------------------------------------------------------------
(* C17.  Every module reachable within maxDepth links is listed.           *)

\* the submodules of mod that were imported and pass the private filter
ImportedSubmodules(mod) ==
    {m \in subs[mod] \cap imported : includePrivate \/ ~PrivateName(ModName(m))}

\* the modules reachable from the root by at most n links of that kind
RECURSIVE ListedWithin(_)
ListedWithin(n) ==
    IF n = 0 THEN {root}
    ELSE LET R == ListedWithin(n - 1) IN R \cup UNION {ImportedSubmodules(m) : m \in R}

\* the non-private, imported submodules at the end of a chain of at least
\* one and at most maxDepth links from the root
ReachableSubmodules ==
    IF maxDepth = 0 THEN {}
    ELSE {m \in UNION {ImportedSubmodules(p) : p \in ListedWithin(maxDepth - 1)} :
            ~PrivateName(ModName(m))}

\* the depths of the walks of mod: one less than the depth of the lines
\* that name it as a submodule
ReachedAt(mod) == {LineDepth(out[k].text) : k \in SubmoduleLines(mod)}

\* C17: when the walk has ended, every non-private importable submodule
\*      reachable from the root by at most maxDepth links has been printed
\*      as an item; a module first reached at depth maxDepth and reached
\*      again at a smaller depth has its submodules listed.
C17_AllReachableListed ==
    Done =>
        /\ \A m \in ReachableSubmodules : SubmoduleLines(m) # {}
        /\ \A e \in log :
              (e.depth = maxDepth /\ \E d \in ReachedAt(e.mod) : d < maxDepth) =>
                  {out[k].obj : k \in SubmoduleEntries(e.mod)} = ImportedSubmodules(e.mod)

\* the run that shows the divergence: root pkg with the submodules Lib and
\* sub, Lib with the submodule sub, sub with the submodule pkg, maxDepth 2.
\* sub is first walked beneath Lib, at depth 2, where its submodules are not
\* looked for; beneath pkg, at depth 1, it is "(already visited)", and its
\* submodule pkg, two links from the root, is on no line as an item
C17_FailingRun ==
    /\ Done
    /\ root = "pkg"
    /\ maxDepth = 2
    /\ subs["pkg"] = {"lib", "sub"}
    /\ subs["lib"] = {"sub"}
    /\ subs["sub"] = {"pkg"}
    /\ failed = {}
    /\ [mod |-> "sub", depth |-> 2, scan |-> FALSE] \in log
    /\ ReachedAt("sub") = {1, 2}
    /\ Sentinels("sub") # {}
    /\ "pkg" \in ReachableSubmodules
    /\ SubmoduleLines("pkg") = {}
    /\ SubmoduleEntries("sub") = {}

====
